---------------------------- MODULE Spec2Model ----------------------------
(* A model of menpo/features/base.py: the circular bit rotations, the LBP   *)
(* mapping table construction and the parameter handling of hog.            *)
(* Each function is a component of its own; a specification runs one        *)
(* component and leaves the variables of the others at their idle values.   *)
EXTENDS Integers, Sequences, FiniteSets, TLC

VARIABLES
    \* circural_rotation_left / circural_rotation_right
    rot_in,        \* the value the caller started from
    rot_val,       \* val: the value after the rotations applied so far
    rot_bits,      \* rot_bits
    max_bits,      \* max_bits
    rot_ops,       \* the rotations applied so far, oldest first
    \* _lbp_mapping_table
    lbp_pc,        \* position in the function
    n_samples,     \* n_samples
    mapping_type,  \* mapping_type
    lbp_c,         \* c: the loop variable of `for c in range(2**n_samples)`
    table,         \* table
    index,         \* index (u2)
    new_max,       \* new_max
    tmp_map,       \* tmp_map (ri)
    written,       \* the indices c for which `table[c] = ...` has been executed
    \* hog
    hog_pc,        \* position in the function
    args,          \* the arguments of the call that the code has read so far
    shape,         \* image_data.shape[0], image_data.shape[1]
    heap,          \* the pixel arrays in memory; heap[1] is the caller's array
    image_data,    \* the array the local name image_data is bound to (0: unread)
    iterator,      \* <<>> or the one CppImageWindowIterator that exists
    hog_error,     \* the message of the error raised, "" when none
    \* igo
    igo_pc,        \* position in the function
    igo_args,      \* image_data.shape and double_angles
    feat_channels, \* feat_channels
    igo_grad,      \* grad: the derivative each slot of the last axis holds
    grad_orient,   \* grad_orient: the angle each slot of the last axis holds
    igo_data,      \* igo_data: what each slot of the last axis holds
    igo_writes,    \* how often each slot of igo_data has been assigned
    \* es
    es_pc,         \* position in the function
    es_args,       \* image_data: its shape and its samples
    es_grad,       \* grad: the derivatives, one array per slot of the last axis
    grad_abs,      \* grad_abs, one array per channel
    es_data        \* es_data, one array per slot of the last axis

rotVars == <<rot_in, rot_val, rot_bits, max_bits, rot_ops>>
lbpVars == <<lbp_pc, n_samples, mapping_type, lbp_c, table, index, new_max,
             tmp_map, written>>
hogVars == <<hog_pc, args, shape, heap, image_data, iterator, hog_error>>
igoVars == <<igo_pc, igo_args, feat_channels, igo_grad, grad_orient, igo_data,
             igo_writes>>
esVars == <<es_pc, es_args, es_grad, grad_abs, es_data>>
vars == <<rotVars, lbpVars, hogVars, igoVars, esVars>>

-----------------------------------------------------------------------------
(* Bounds *)

\* largest max_bits of a rotation call
MaxBits == 8
\* largest rot_bits of a rotation call
MaxRot == 17
\* largest n_samples of a mapping table
MaxSamples == 8

-----------------------------------------------------------------------------
(* Python's integer operators on non-negative integers of any size *)

\* a << k
ShiftLeft(a, k) == a * (2 ^ k)

\* a >> k
ShiftRight(a, k) == a \div (2 ^ k)

RECURSIVE BitAnd(_, _)
\* a & b
BitAnd(a, b) ==
    IF a = 0 \/ b = 0 THEN 0
    ELSE (IF a % 2 = 1 /\ b % 2 = 1 THEN 1 ELSE 0)
         + 2 * BitAnd(a \div 2, b \div 2)

RECURSIVE BitOr(_, _)
\* a | b
BitOr(a, b) ==
    IF a = 0 THEN b
    ELSE IF b = 0 THEN a
    ELSE (IF a % 2 = 1 \/ b % 2 = 1 THEN 1 ELSE 0)
         + 2 * BitOr(a \div 2, b \div 2)

RECURSIVE BitXor(_, _)
\* a ^ b
BitXor(a, b) ==
    IF a = 0 THEN b
    ELSE IF b = 0 THEN a
    ELSE (IF a % 2 # b % 2 THEN 1 ELSE 0)
         + 2 * BitXor(a \div 2, b \div 2)

RECURSIVE CountOnes(_)
\* bin(a).count('1')
CountOnes(a) == IF a = 0 THEN 0 ELSE (a % 2) + CountOnes(a \div 2)

-----------------------------------------------------------------------------
(* circural_rotation_left, circural_rotation_right *)

\* (val << rot_bits % max_bits) & (2**max_bits - 1) |
\* ((val & (2**max_bits - 1)) >> (max_bits - (rot_bits % max_bits)))
circural_rotation_left(val, rot, bits) ==
    BitOr(BitAnd(ShiftLeft(val, rot % bits), 2 ^ bits - 1),
          ShiftRight(BitAnd(val, 2 ^ bits - 1), bits - (rot % bits)))

\* circural_rotation_right without the mask on val before the right shift
circural_rotation_right_unmasked(val, rot, bits) ==
    BitOr(ShiftRight(val, rot % bits),
          BitAnd(ShiftLeft(val, bits - (rot % bits)), 2 ^ bits - 1))

\* ((val & (2**max_bits - 1)) >> rot_bits % max_bits) |
\* (val << (max_bits - (rot_bits % max_bits)) & (2**max_bits - 1))
circural_rotation_right(val, rot, bits) ==
    BitOr(ShiftRight(BitAnd(val, 2 ^ bits - 1), rot % bits),
          BitAnd(ShiftLeft(val, bits - (rot % bits)), 2 ^ bits - 1))

\* the rotation component is not running
RotIdle ==
    /\ rot_in = 0 /\ rot_val = 0 /\ rot_bits = 0 /\ max_bits = 1
    /\ rot_ops = <<>>

\* a caller holding a value, a rotation count and a bit width
RotStart ==
    /\ max_bits \in 1..MaxBits
    /\ rot_bits \in 0..MaxRot
    /\ rot_in \in 0..(2 ^ (MaxBits + 1) - 1)
    /\ rot_val = rot_in
    /\ rot_ops = <<>>

\* val = circural_rotation_left(val, rot_bits, max_bits)
RotateLeft ==
    /\ Len(rot_ops) < 2
    /\ rot_val' = circural_rotation_left(rot_val, rot_bits, max_bits)
    /\ rot_ops' = Append(rot_ops, "left")
    /\ UNCHANGED <<rot_in, rot_bits, max_bits>>
    /\ UNCHANGED <<lbpVars, hogVars, igoVars, esVars>>

\* val = circural_rotation_right(val, rot_bits, max_bits)
RotateRight ==
    /\ Len(rot_ops) < 2
    /\ rot_val' = circural_rotation_right(rot_val, rot_bits, max_bits)
    /\ rot_ops' = Append(rot_ops, "right")
    /\ UNCHANGED <<rot_in, rot_bits, max_bits>>
    /\ UNCHANGED <<lbpVars, hogVars, igoVars, esVars>>

-----------------------------------------------------------------------------
(* _lbp_mapping_table *)

MappingTypes == {"u2", "ri", "riu2", "none", "other"}

\* num_trans with a plain left shift in place of the rotation: the transition
\* between the top bit and the bottom bit is not counted as one
num_trans_no_wrap(c, n) ==
    CountOnes(BitXor(c, BitAnd(ShiftLeft(c, 1), 2 ^ n - 1)))

\* bin(c ^ circural_rotation_left(c, 1, n_samples)).count('1')
num_trans(c, n) == CountOnes(BitXor(c, circural_rotation_left(c, 1, n)))

\* new_max = n_samples * (n_samples - 1) + 3
u2_new_max(n) == n * (n - 1) + 3

\* the riu2 class count with the non-uniform class forgotten
riu2_new_max_short(n) == n + 1

\* new_max = n_samples + 2
riu2_new_max(n) == n + 2

RECURSIVE rotation_min_from(_, _, _, _, _)
\* the body of `for j in range(1, stop)`, from j on, with r and rm as they are
rotation_min_from(j, stop, r, rm, n) ==
    IF j >= stop THEN rm
    ELSE LET r2 == circural_rotation_left(r, 1, n)
         IN rotation_min_from(j + 1, stop, r2, IF r2 < rm THEN r2 ELSE rm, n)

\* rotation_min with the last rotation left out: range(1, n_samples - 1)
rotation_min_short(c, n) == rotation_min_from(1, n - 1, c, c, n)

\* rm = c; r = c; for j in range(1, n_samples): r = rotl(r); rm = min(rm, r)
rotation_min(c, n) == rotation_min_from(1, n, c, c, n)

\* table[c] of the riu2 branch with the uniformity test left out
riu2_entry_no_test(c, n) == CountOnes(c)

\* table[c] of the riu2 branch
riu2_entry(c, n) == IF num_trans(c, n) <= 2 THEN CountOnes(c) ELSE n + 1

\* range(2**n_samples) stopping one short
code_range_short(n) == 0..(2 ^ n - 2)

\* range(2**n_samples)
code_range(n) == 0..(2 ^ n - 1)

\* the mapping table component is not running
LbpIdle ==
    /\ lbp_pc = "idle" /\ n_samples = 0 /\ mapping_type = "none"
    /\ lbp_c = 0 /\ table = <<>> /\ index = 0 /\ new_max = 0
    /\ tmp_map = <<>> /\ written = {}

\* a call _lbp_mapping_table(n_samples, mapping_type)
LbpStart ==
    /\ lbp_pc = "start"
    /\ n_samples \in 1..MaxSamples
    /\ mapping_type \in MappingTypes
    /\ lbp_c = 0 /\ table = <<>> /\ index = 0 /\ new_max = 0
    /\ tmp_map = <<>> /\ written = {}

\* table = range(2**n_samples); mapping_type == 'u2': new_max, index
LbpEnterU2 ==
    /\ lbp_pc = "start" /\ mapping_type = "u2"
    /\ table' = [c \in 0..(2 ^ n_samples - 1) |-> c]
    /\ new_max' = u2_new_max(n_samples)
    /\ index' = 0
    /\ lbp_c' = 0
    /\ lbp_pc' = "loop"
    /\ UNCHANGED <<n_samples, mapping_type, tmp_map, written>>
    /\ UNCHANGED <<rotVars, hogVars, igoVars, esVars>>

\* one iteration of the u2 loop
LbpStepU2 ==
    /\ lbp_pc = "loop" /\ mapping_type = "u2"
    /\ lbp_c \in code_range(n_samples)
    /\ IF num_trans(lbp_c, n_samples) <= 2
       THEN /\ table' = [table EXCEPT ![lbp_c] = index]
            /\ index' = index + 1
       ELSE /\ table' = [table EXCEPT ![lbp_c] = new_max - 1]
            /\ index' = index
    /\ written' = written \cup {lbp_c}
    /\ lbp_c' = lbp_c + 1
    /\ UNCHANGED <<lbp_pc, n_samples, mapping_type, new_max, tmp_map>>
    /\ UNCHANGED <<rotVars, hogVars, igoVars, esVars>>

\* table = range(2**n_samples); mapping_type == 'ri': new_max, tmp_map
LbpEnterRI ==
    /\ lbp_pc = "start" /\ mapping_type = "ri"
    /\ table' = [c \in 0..(2 ^ n_samples - 1) |-> c]
    /\ new_max' = 0
    /\ tmp_map' = [c \in 0..(2 ^ n_samples - 1) |-> 0 - 1]
    /\ lbp_c' = 0
    /\ lbp_pc' = "loop"
    /\ UNCHANGED <<n_samples, mapping_type, index, written>>
    /\ UNCHANGED <<rotVars, hogVars, igoVars, esVars>>

\* one iteration of the ri loop
LbpStepRI ==
    /\ lbp_pc = "loop" /\ mapping_type = "ri"
    /\ lbp_c \in code_range(n_samples)
    /\ LET rm == rotation_min(lbp_c, n_samples)
       IN IF tmp_map[rm] < 0
          THEN /\ tmp_map' = [tmp_map EXCEPT ![rm] = new_max]
               /\ new_max' = new_max + 1
               /\ table' = [table EXCEPT ![lbp_c] = new_max]
          ELSE /\ tmp_map' = tmp_map
               /\ new_max' = new_max
               /\ table' = [table EXCEPT ![lbp_c] = tmp_map[rm]]
    /\ written' = written \cup {lbp_c}
    /\ lbp_c' = lbp_c + 1
    /\ UNCHANGED <<lbp_pc, n_samples, mapping_type, index>>
    /\ UNCHANGED <<rotVars, hogVars, igoVars, esVars>>

\* table = range(2**n_samples); mapping_type == 'riu2': new_max
LbpEnterRIU2 ==
    /\ lbp_pc = "start" /\ mapping_type = "riu2"
    /\ table' = [c \in 0..(2 ^ n_samples - 1) |-> c]
    /\ new_max' = riu2_new_max(n_samples)
    /\ lbp_c' = 0
    /\ lbp_pc' = "loop"
    /\ UNCHANGED <<n_samples, mapping_type, index, tmp_map, written>>
    /\ UNCHANGED <<rotVars, hogVars, igoVars, esVars>>

\* one iteration of the riu2 loop
LbpStepRIU2 ==
    /\ lbp_pc = "loop" /\ mapping_type = "riu2"
    /\ lbp_c \in code_range(n_samples)
    /\ table' = [table EXCEPT ![lbp_c] = riu2_entry(lbp_c, n_samples)]
    /\ written' = written \cup {lbp_c}
    /\ lbp_c' = lbp_c + 1
    /\ UNCHANGED <<lbp_pc, n_samples, mapping_type, index, new_max, tmp_map>>
    /\ UNCHANGED <<rotVars, hogVars, igoVars, esVars>>

\* mapping_type == 'none': table = 0; new_max = 0
LbpNone ==
    /\ lbp_pc = "start" /\ mapping_type = "none"
    /\ table' = 0
    /\ new_max' = 0
    /\ lbp_pc' = "returned"
    /\ UNCHANGED <<n_samples, mapping_type, lbp_c, index, tmp_map, written>>
    /\ UNCHANGED <<rotVars, hogVars, igoVars, esVars>>

\* else: raise ValueError('Wrong mapping type.')
LbpWrongType ==
    /\ lbp_pc = "start"
    /\ mapping_type \notin {"u2", "ri", "riu2", "none"}
    /\ table' = [c \in 0..(2 ^ n_samples - 1) |-> c]
    /\ lbp_pc' = "raised"
    /\ UNCHANGED <<n_samples, mapping_type, lbp_c, index, new_max, tmp_map,
                   written>>
    /\ UNCHANGED <<rotVars, hogVars, igoVars, esVars>>

\* the loop's range is exhausted: return table, new_max
LbpReturn ==
    /\ lbp_pc = "loop"
    /\ lbp_c \notin code_range(n_samples)
    /\ lbp_pc' = "returned"
    /\ UNCHANGED <<n_samples, mapping_type, lbp_c, table, index, new_max,
                   tmp_map, written>>
    /\ UNCHANGED <<rotVars, hogVars, igoVars, esVars>>

-----------------------------------------------------------------------------
(* hog *)
(* An argument enters the state when the code first reads it: arguments do  *)
(* not change during a call, so the behaviours are those of a call whose    *)
(* arguments are all fixed on entry. The window arguments are drawn where   *)
(* the dense-mode block starts, whether or not the block is entered.        *)
(* window_height, window_width, window_step_vertical and                    *)
(* window_step_horizontal are floats: the model carries them, and the       *)
(* geometry of the iterator, in halves (1.5 is 3), so that a conversion to  *)
(* a whole number has something to cut off.                                 *)

\* the values a caller passes
Modes == {"dense", "sparse", "other"}
Algorithms == {"dalaltriggs", "zhuramanan", "other"}
NumBins == {0, 9}
CellSizes == {0, 1, 2}
BlockSizes == {0, 1, 2}
\* l2_norm_clip, in tenths
L2NormClips == {0, 2}
WindowUnits == {"pixels", "blocks", "other"}
WindowStepUnits == {"pixels", "cells", "other"}
\* image_data.shape[2]
ChannelCounts == {1, 2, 3}
\* len(image_data.shape) of the array hog is called with. An array with more
\* than 3 axes reaches the constructor of CppImageWindowIterator, which is
\* not part of base.py.
HogNDims == {2, 3}
\* largest window_height and window_width, whole numbers
MaxWindow == 3
\* largest window_step_vertical and window_step_horizontal, in halves
MaxStep == 2
\* the window sizes a caller passes, in halves
WindowSizes == {2 * w : w \in 0..MaxWindow}
\* the window steps a caller passes, in halves
WindowSteps == 0..MaxStep
\* image_data.shape[0]
ImageHeight == 3
\* image_data.shape[1]
ImageWidth == 4

\* the arguments a with argument name bound to v
Bind(a, name, v) ==
    [x \in DOMAIN a \cup {name} |-> IF x = name THEN v ELSE a[x]]

\* `mode is 'dense'`: identity with the interned literal, which an equal
\* string built at run time does not have
mode_is_dense(a) == a["mode"] = "dense" /\ a["mode_is_literal"]

\* np.uint32(x) of a float x >= 0 below 2^32, x and the result in halves: the
\* fraction is cut off
uint32(x) == 2 * (x \div 2)

\* window_height_temp / window_width_temp
window_temp(w, a) ==
    IF a["window_unit"] = "blocks"
    THEN w * a["block_size"] * a["cell_size"]
    ELSE w

\* the window size the dense iterator gets
dense_window(w, a) ==
    IF a["window_unit"] = "blocks"
    THEN uint32(w * (IF a["algorithm"] = "dalaltriggs"
                     THEN a["cell_size"] * a["block_size"]
                     ELSE 3 * a["cell_size"]))
    ELSE w

\* the window step the dense iterator gets
dense_step(s, a) ==
    IF a["window_step_unit"] = "cells" THEN uint32(s * a["cell_size"]) ELSE s

\* the dense iterator
dense_iterator(img, a) ==
    [image |-> img,
     window_height |-> dense_window(a["window_height"], a),
     window_width |-> dense_window(a["window_width"], a),
     window_step_horizontal |-> dense_step(a["window_step_horizontal"], a),
     window_step_vertical |-> dense_step(a["window_step_vertical"], a),
     padding |-> a["padding"]]

\* the sparse iterator taking the caller's window and padding
sparse_iterator_from_args(img, a) ==
    [image |-> img,
     window_height |-> a["window_height"],
     window_width |-> a["window_width"],
     window_step_horizontal |-> 2 * a["cell_size"],
     window_step_vertical |-> 2 * a["cell_size"],
     padding |-> a["padding"]]

\* the sparse iterator
sparse_iterator(img, a) ==
    LET window_size == IF a["algorithm"] = "dalaltriggs"
                       THEN a["cell_size"] * a["block_size"]
                       ELSE 3 * a["cell_size"]
        step == a["cell_size"]
    IN [image |-> img,
        window_height |-> 2 * window_size,
        window_width |-> 2 * window_size,
        window_step_horizontal |-> 2 * step,
        window_step_vertical |-> 2 * step,
        padding |-> FALSE]

\* the caller's pixel array: one sample per channel
caller_pixels(channels) == [c \in 1..channels |-> c]

\* pixels *= 255.
scaled(pixels) == [c \in DOMAIN pixels |-> pixels[c] * 255]

\* np.asfortranarray(image_data): the array itself when it is already
\* Fortran-contiguous, a copy otherwise. <<heap, array>>
asfortranarray(h, id) ==
    IF h[id].fortran THEN <<h, id>>
    ELSE <<Append(h, [pixels |-> h[id].pixels, fortran |-> TRUE]), Len(h) + 1>>

\* image_data *= 255. on the array image_data names
scale_in_place(h, id) ==
    [h EXCEPT ![id] = [pixels |-> scaled(h[id].pixels), fortran |-> h[id].fortran]]

\* np.tile(image_data, [1, 1, 3]) as a new array. <<heap, array>>
tile3(h, id) ==
    <<Append(h, [pixels |-> h[id].pixels \o h[id].pixels \o h[id].pixels,
                 fortran |-> FALSE]),
      Len(h) + 1>>

\* the hog component is not running
HogIdle ==
    /\ hog_pc = "idle" /\ args = <<>> /\ shape = <<0, 0>> /\ heap = <<>>
    /\ image_data = 0 /\ iterator = <<>> /\ hog_error = ""

\* a call hog(image_data, mode, ...)
HogStart ==
    /\ hog_pc = "check_mode"
    /\ \E m \in Modes, lit \in BOOLEAN :
         /\ m # "dense" => lit
         /\ args = [x \in {"mode", "mode_is_literal"} |->
                      IF x = "mode" THEN m ELSE lit]
    /\ shape = <<ImageHeight, ImageWidth>>
    /\ heap = <<>>
    /\ image_data = 0 /\ iterator = <<>> /\ hog_error = ""

\* raise ValueError(msg)
Raise(msg) ==
    /\ hog_pc' = "raised"
    /\ hog_error' = msg

\* go on to the next statement
Goto(pc) ==
    /\ hog_pc' = pc
    /\ hog_error' = hog_error

\* if mode not in ['dense', 'sparse']
HogCheckMode ==
    /\ hog_pc = "check_mode"
    /\ IF args["mode"] \notin {"dense", "sparse"}
       THEN Raise("HOG features mode must be either dense or sparse")
       ELSE Goto("check_algorithm")
    /\ UNCHANGED <<args, shape, heap, image_data, iterator>>
    /\ UNCHANGED <<rotVars, lbpVars, igoVars, esVars>>

\* if algorithm not in ['dalaltriggs', 'zhuramanan']
HogCheckAlgorithm ==
    /\ hog_pc = "check_algorithm"
    /\ \E v \in Algorithms :
         /\ args' = Bind(args, "algorithm", v)
         /\ IF v \notin {"dalaltriggs", "zhuramanan"}
            THEN Raise("Algorithm must be either dalaltriggs or zhuramanan")
            ELSE Goto("check_num_bins")
    /\ UNCHANGED <<shape, heap, image_data, iterator>>
    /\ UNCHANGED <<rotVars, lbpVars, igoVars, esVars>>

\* if num_bins <= 0
HogCheckNumBins ==
    /\ hog_pc = "check_num_bins"
    /\ \E v \in NumBins :
         /\ args' = Bind(args, "num_bins", v)
         /\ IF v <= 0
            THEN Raise("Number of orientation bins must be > 0")
            ELSE Goto("check_cell_size")
    /\ UNCHANGED <<shape, heap, image_data, iterator>>
    /\ UNCHANGED <<rotVars, lbpVars, igoVars, esVars>>

\* if cell_size <= 0
HogCheckCellSize ==
    /\ hog_pc = "check_cell_size"
    /\ \E v \in CellSizes :
         /\ args' = Bind(args, "cell_size", v)
         /\ IF v <= 0
            THEN Raise("Cell size (in pixels) must be > 0")
            ELSE Goto("check_block_size")
    /\ UNCHANGED <<shape, heap, image_data, iterator>>
    /\ UNCHANGED <<rotVars, lbpVars, igoVars, esVars>>

\* if block_size <= 0
HogCheckBlockSize ==
    /\ hog_pc = "check_block_size"
    /\ \E v \in BlockSizes :
         /\ args' = Bind(args, "block_size", v)
         /\ IF v <= 0
            THEN Raise("Block size (in cells) must be > 0")
            ELSE Goto("check_l2_norm_clip")
    /\ UNCHANGED <<shape, heap, image_data, iterator>>
    /\ UNCHANGED <<rotVars, lbpVars, igoVars, esVars>>

\* if l2_norm_clip <= 0.0
HogCheckL2NormClip ==
    /\ hog_pc = "check_l2_norm_clip"
    /\ \E v \in L2NormClips :
         /\ args' = Bind(args, "l2_norm_clip", v)
         /\ IF v <= 0
            THEN Raise("Value for L2-norm clipping must be > 0.0")
            ELSE Goto("dense_block")
    /\ UNCHANGED <<shape, heap, image_data, iterator>>
    /\ UNCHANGED <<rotVars, lbpVars, igoVars, esVars>>

\* if mode is 'dense'
HogDenseBlock ==
    /\ hog_pc = "dense_block"
    /\ \E wu \in WindowUnits, wh \in WindowSizes, ww \in WindowSizes,
          sv \in WindowSteps, sh \in WindowSteps, su \in WindowStepUnits,
          pad \in BOOLEAN :
         args' = Bind(Bind(Bind(Bind(Bind(Bind(Bind(args,
                    "window_unit", wu), "window_height", wh),
                    "window_width", ww), "window_step_vertical", sv),
                    "window_step_horizontal", sh), "window_step_unit", su),
                    "padding", pad)
    /\ IF mode_is_dense(args)
       THEN Goto("check_window_unit")
       ELSE Goto("correct_image")
    /\ UNCHANGED <<shape, heap, image_data, iterator>>
    /\ UNCHANGED <<rotVars, lbpVars, igoVars, esVars>>

\* if window_unit not in ['pixels', 'blocks']
HogCheckWindowUnit ==
    /\ hog_pc = "check_window_unit"
    /\ IF args["window_unit"] \notin {"pixels", "blocks"}
       THEN Raise("Window unit must be either pixels or blocks")
       ELSE Goto("check_window_height")
    /\ UNCHANGED <<args, shape, heap, image_data, iterator>>
    /\ UNCHANGED <<rotVars, lbpVars, igoVars, esVars>>

\* if window_height_temp < block_size*cell_size or
\*    window_height_temp > image_data.shape[0]
HogCheckWindowHeight ==
    /\ hog_pc = "check_window_height"
    /\ LET window_height_temp == window_temp(args["window_height"], args)
       IN IF \/ window_height_temp < 2 * (args["block_size"] * args["cell_size"])
             \/ window_height_temp > 2 * shape[1]
          THEN Raise("Window height must be >= block size and <= image height")
          ELSE Goto("check_window_width")
    /\ UNCHANGED <<args, shape, heap, image_data, iterator>>
    /\ UNCHANGED <<rotVars, lbpVars, igoVars, esVars>>

\* if window_width_temp < block_size*cell_size or
\*    window_width_temp > image_data.shape[1]
HogCheckWindowWidth ==
    /\ hog_pc = "check_window_width"
    /\ LET window_width_temp == window_temp(args["window_width"], args)
       IN IF \/ window_width_temp < 2 * (args["block_size"] * args["cell_size"])
             \/ window_width_temp > 2 * shape[2]
          THEN Raise("Window width must be >= block size and <= image width")
          ELSE Goto("check_step_horizontal")
    /\ UNCHANGED <<args, shape, heap, image_data, iterator>>
    /\ UNCHANGED <<rotVars, lbpVars, igoVars, esVars>>

\* if window_step_horizontal <= 0
HogCheckStepHorizontal ==
    /\ hog_pc = "check_step_horizontal"
    /\ IF args["window_step_horizontal"] <= 0
       THEN Raise("Horizontal window step must be > 0")
       ELSE Goto("check_step_vertical")
    /\ UNCHANGED <<args, shape, heap, image_data, iterator>>
    /\ UNCHANGED <<rotVars, lbpVars, igoVars, esVars>>

\* if window_step_vertical <= 0
HogCheckStepVertical ==
    /\ hog_pc = "check_step_vertical"
    /\ IF args["window_step_vertical"] <= 0
       THEN Raise("Vertical window step must be > 0")
       ELSE Goto("check_step_unit")
    /\ UNCHANGED <<args, shape, heap, image_data, iterator>>
    /\ UNCHANGED <<rotVars, lbpVars, igoVars, esVars>>

\* if window_step_unit not in ['pixels', 'cells']
HogCheckStepUnit ==
    /\ hog_pc = "check_step_unit"
    /\ IF args["window_step_unit"] \notin {"pixels", "cells"}
       THEN Raise("Window step unit must be either pixels or cells")
       ELSE Goto("correct_image")
    /\ UNCHANGED <<args, shape, heap, image_data, iterator>>
    /\ UNCHANGED <<rotVars, lbpVars, igoVars, esVars>>

\* image_data = np.asfortranarray(image_data), then the rescaling by the
\* number of channels and the algorithm. image_data.shape[2] of an array
\* with 2 axes raises IndexError.
HogCorrectImage ==
    /\ hog_pc = "correct_image"
    /\ \E ndim \in HogNDims, channels \in ChannelCounts, fortran \in BOOLEAN :
         LET caller == <<[pixels |-> caller_pixels(channels),
                          fortran |-> fortran]>>
             af == asfortranarray(caller, 1)
         IN /\ ndim = 2 => channels = 1
            /\ args' = Bind(args, "ndim", ndim)
            /\ IF ndim = 2
               THEN /\ heap' = af[1]
                    /\ image_data' = af[2]
                    /\ hog_pc' = "index_error"
                    /\ hog_error' = "tuple index out of range"
               ELSE /\ Goto("create_iterator")
                    /\ IF channels = 3
                       THEN /\ heap' = scale_in_place(af[1], af[2])
                            /\ image_data' = af[2]
                       ELSE IF channels = 1 /\ args["algorithm"] = "zhuramanan"
                       THEN LET tl == tile3(scale_in_place(af[1], af[2]), af[2])
                            IN /\ heap' = tl[1]
                               /\ image_data' = tl[2]
                       ELSE /\ heap' = af[1]
                            /\ image_data' = af[2]
    /\ UNCHANGED <<shape, iterator>>
    /\ UNCHANGED <<rotVars, lbpVars, igoVars, esVars>>

\* if mode == 'dense': iterator = CppImageWindowIterator(image_data,
\* window_height, window_width, window_step_horizontal,
\* window_step_vertical, padding)
HogCreateDenseIterator ==
    /\ hog_pc = "create_iterator"
    /\ args["mode"] = "dense"
    /\ iterator' = <<dense_iterator(image_data, args)>>
    /\ Goto("compute")
    /\ UNCHANGED <<args, shape, heap, image_data>>
    /\ UNCHANGED <<rotVars, lbpVars, igoVars, esVars>>

\* else: iterator = CppImageWindowIterator(image_data, window_size,
\* window_size, step, step, False)
HogCreateSparseIterator ==
    /\ hog_pc = "create_iterator"
    /\ args["mode"] # "dense"
    /\ iterator' = <<sparse_iterator(image_data, args)>>
    /\ Goto("compute")
    /\ UNCHANGED <<args, shape, heap, image_data>>
    /\ UNCHANGED <<rotVars, lbpVars, igoVars, esVars>>

\* output_image, windows_centers = iterator.HOG(...)
HogCompute ==
    /\ hog_pc = "compute"
    /\ Goto("computed")
    /\ UNCHANGED <<args, shape, heap, image_data, iterator>>
    /\ UNCHANGED <<rotVars, lbpVars, igoVars, esVars>>

\* iterator.HOG(...) raises: the exception leaves hog from line 257, the
\* statements after it are not executed, and the frame the traceback holds
\* still names the iterator
HogComputeRaises ==
    /\ hog_pc = "compute"
    /\ hog_pc' = "failed"
    /\ hog_error' = "HOG"
    /\ UNCHANGED <<args, shape, heap, image_data, iterator>>
    /\ UNCHANGED <<rotVars, lbpVars, igoVars, esVars>>

\* del iterator; return output_image, windows_centers
HogReturn ==
    /\ hog_pc = "computed"
    /\ iterator' = <<>>
    /\ Goto("returned")
    /\ UNCHANGED <<args, shape, heap, image_data>>
    /\ UNCHANGED <<rotVars, lbpVars, igoVars, esVars>>

-----------------------------------------------------------------------------
(* gradient *)
(* The last axis of an array is a sequence of slots. gradient, igo and es   *)
(* move whole slots: a slot is what it holds at every pixel.                *)

\* largest number of channels of an image igo or es is called with
MaxChannels == 3

\* np.gradient(g) of channel g, an array with n axes: one derivative for
\* each axis, in the order of the axes
np_gradient(g, n) == [a \in 1..n |-> [channel |-> g, axis |-> a - 1]]

\* list(itertools.chain.from_iterable(lists))
RECURSIVE chain(_)
chain(lists) ==
    IF lists = <<>> THEN <<>> ELSE Head(lists) \o chain(Tail(lists))

\* the derivatives axis by axis, and channel by channel for each axis
gradient_axis_major(s) ==
    LET n == Len(s) - 1
        channels == s[Len(s)]
    IN chain([a \in 1..n |->
                [g \in 1..channels |-> [channel |-> g - 1, axis |-> a - 1]]])

\* gradient(image_data) for an image with the given shape: the slots of the
\* last axis of the result
gradient(s) ==
    LET n == Len(s) - 1
        channels == s[Len(s)]
        grad_per_dim_per_channel ==
            [g \in 1..channels |-> np_gradient(g - 1, n)]
    IN chain(grad_per_dim_per_channel)

\* a[..., start::step] of the slots a
RECURSIVE Slice(_, _, _)
Slice(a, start, step) ==
    IF start >= Len(a) THEN <<>>
    ELSE <<a[start + 1]>> \o Slice(a, start + step, step)

\* the slots a after a[..., start::step] = values
AssignSlice(a, start, step, values) ==
    [i \in DOMAIN a |->
        IF i - 1 >= start /\ (i - 1 - start) % step = 0
        THEN values[((i - 1 - start) \div step) + 1]
        ELSE a[i]]

\* the slots a[..., start::step] names, counted from 1
SliceSlots(a, start, step) ==
    {i \in DOMAIN a : i - 1 >= start /\ (i - 1 - start) % step = 0}

-----------------------------------------------------------------------------
(* igo *)

\* len(image_data.shape) of the array igo or es is called with
NDims == {2, 3, 4}

\* the shapes of the arrays igo is called with
IgoShapes ==
    LET sides == {<<h, w>> : h \in 2..ImageHeight, w \in 2..ImageWidth}
    IN sides
       \cup {s \o <<c>> : s \in sides, c \in 1..MaxChannels}
       \cup {s \o <<2, c>> : s \in sides, c \in 1..MaxChannels}

\* np.angle(re + 1j * im), slot by slot
angle(re, im) == [c \in DOMAIN re |-> [real |-> re[c], imag |-> im[c]]]

\* np.cos(x), np.sin(x), np.cos(2 * x), np.sin(2 * x), slot by slot
feature(name, x) == [c \in DOMAIN x |-> [feature |-> name, of |-> x[c]]]

\* np.empty((height, width, channels)): slots nothing has been written to
empty(height, width, channels) ==
    [shape |-> <<height, width, channels>>,
     slots |-> [i \in 1..channels |-> "uninitialized"]]

\* the array a after a[..., start::step] = values
Assigned(a, start, step, values) ==
    [shape |-> a.shape, slots |-> AssignSlice(a.slots, start, step, values)]

\* the igo component is not running
IgoIdle ==
    /\ igo_pc = "idle" /\ igo_args = <<>> /\ feat_channels = 0
    /\ igo_grad = <<>> /\ grad_orient = <<>> /\ igo_data = <<>>
    /\ igo_writes = <<>>

\* a call igo(image_data, double_angles)
IgoStart ==
    /\ igo_pc = "check_shape"
    /\ \E s \in IgoShapes, d \in BOOLEAN :
         igo_args = [shape |-> s, double_angles |-> d]
    /\ feat_channels = 0
    /\ igo_grad = <<>> /\ grad_orient = <<>> /\ igo_data = <<>>
    /\ igo_writes = <<>>

\* if len(image_data.shape) != 3: raise ValueError(...)
IgoCheckShape ==
    /\ igo_pc = "check_shape"
    /\ igo_pc' = IF Len(igo_args.shape) # 3 THEN "raised" ELSE "feat_channels"
    /\ UNCHANGED <<igo_args, feat_channels, igo_grad, grad_orient, igo_data,
                   igo_writes>>
    /\ UNCHANGED <<rotVars, lbpVars, hogVars, esVars>>

\* feat_channels = 2, or 4 if double_angles
IgoFeatChannels ==
    /\ igo_pc = "feat_channels"
    /\ feat_channels' = IF igo_args.double_angles THEN 4 ELSE 2
    /\ igo_pc' = "gradient"
    /\ UNCHANGED <<igo_args, igo_grad, grad_orient, igo_data, igo_writes>>
    /\ UNCHANGED <<rotVars, lbpVars, hogVars, esVars>>

\* grad = gradient(image_data)
IgoGradient ==
    /\ igo_pc = "gradient"
    /\ igo_grad' = gradient(igo_args.shape)
    /\ igo_pc' = "orient"
    /\ UNCHANGED <<igo_args, feat_channels, grad_orient, igo_data, igo_writes>>
    /\ UNCHANGED <<rotVars, lbpVars, hogVars, esVars>>

\* grad_orient = np.angle(grad[..., ::2] + 1j * grad[..., 1::2])
IgoOrient ==
    /\ igo_pc = "orient"
    /\ grad_orient' = angle(Slice(igo_grad, 0, 2), Slice(igo_grad, 1, 2))
    /\ igo_pc' = "empty"
    /\ UNCHANGED <<igo_args, feat_channels, igo_grad, igo_data, igo_writes>>
    /\ UNCHANGED <<rotVars, lbpVars, hogVars, esVars>>

\* igo_data = np.empty((shape[0], shape[1], shape[-1] * feat_channels))
IgoEmpty ==
    /\ igo_pc = "empty"
    /\ igo_data' = empty(igo_args.shape[1], igo_args.shape[2],
                         igo_args.shape[Len(igo_args.shape)] * feat_channels)
    /\ igo_writes' =
         [i \in 1..(igo_args.shape[Len(igo_args.shape)] * feat_channels) |-> 0]
    /\ igo_pc' = "cos"
    /\ UNCHANGED <<igo_args, feat_channels, igo_grad, grad_orient>>
    /\ UNCHANGED <<rotVars, lbpVars, hogVars, esVars>>

\* igo_data[..., start::feat_channels] = values
IgoAssign(start, values, pc) ==
    /\ igo_data' = Assigned(igo_data, start, feat_channels, values)
    /\ igo_writes' =
         [i \in DOMAIN igo_writes |->
            IF i \in SliceSlots(igo_data.slots, start, feat_channels)
            THEN igo_writes[i] + 1 ELSE igo_writes[i]]
    /\ igo_pc' = pc
    /\ UNCHANGED <<igo_args, feat_channels, igo_grad, grad_orient>>
    /\ UNCHANGED <<rotVars, lbpVars, hogVars, esVars>>

\* igo_data[..., ::feat_channels] = np.cos(grad_orient)
IgoCos ==
    /\ igo_pc = "cos"
    /\ IgoAssign(0, feature("cos", grad_orient), "sin")

\* igo_data[..., 1::feat_channels] = np.sin(grad_orient)
IgoSin ==
    /\ igo_pc = "sin"
    /\ IgoAssign(1, feature("sin", grad_orient),
                 IF igo_args.double_angles THEN "cos2" ELSE "returned")

\* if double_angles:
\*     igo_data[..., 2::feat_channels] = np.cos(2 * grad_orient)
IgoCos2 ==
    /\ igo_pc = "cos2"
    /\ IgoAssign(2, feature("cos2", grad_orient), "sin2")

\*     igo_data[..., 3::feat_channels] = np.sin(2 * grad_orient)
IgoSin2 ==
    /\ igo_pc = "sin2"
    /\ IgoAssign(3, feature("sin2", grad_orient), "returned")

-----------------------------------------------------------------------------
(* es *)
(* A derivative of np.gradient is a multiple of one half: the model holds   *)
(* twice the derivative. np.abs is a square root: the model holds the       *)
(* square of twice the magnitude, which is zero, and smaller or larger      *)
(* than another, exactly when the magnitude is.                             *)

\* image_data.shape[0] of an image es is called with
EsHeight == 2
\* image_data.shape[1] of an image es is called with
EsWidth == 3
\* largest image_data.shape[2] of an image es is called with
MaxEsChannels == 2
\* largest sample of an image es is called with
MaxPixel == 1

\* the positions of the pixels of an image with the given shape
Pixels(s) == (1..s[1]) \X (1..s[2])

\* the arrays es is called with: the shape, and the samples channel by
\* channel when the array has 3 axes
EsImages ==
    {[shape |-> <<EsHeight, EsWidth>>, pixels |-> <<>>]}
    \cup {[shape |-> <<EsHeight, EsWidth, 2, 1>>, pixels |-> <<>>]}
    \cup UNION {{[shape |-> <<EsHeight, EsWidth, c>>, pixels |-> p] :
                   p \in [1..c -> [Pixels(<<EsHeight, EsWidth>>) -> 0..MaxPixel]]} :
                c \in 1..MaxEsChannels}

\* the neighbour of pixel p, d steps along the axis
Along(p, axis, d) == IF axis = 0 THEN <<p[1] + d, p[2]>> ELSE <<p[1], p[2] + d>>

\* twice np.gradient(f)[axis] at pixel p of the array f with shape s:
\* central differences inside, one-sided differences at the two ends
derivative(f, s, axis, p) ==
    LET i == p[axis + 1]
        n == s[axis + 1]
    IN IF i = 1 THEN 2 * (f[Along(p, axis, 1)] - f[p])
       ELSE IF i = n THEN 2 * (f[p] - f[Along(p, axis, -1)])
       ELSE f[Along(p, axis, 1)] - f[Along(p, axis, -1)]

\* gradient(image_data) with its values: slot by slot, twice the derivative
\* at every pixel
gradient_values(image) ==
    LET g == gradient(image.shape)
    IN [k \in DOMAIN g |->
          [p \in Pixels(image.shape) |->
             derivative(image.pixels[g[k].channel + 1], image.shape,
                        g[k].axis, p)]]

\* np.abs(re + 1j * im), slot by slot and pixel by pixel, squared
abs_squared(re, im) ==
    [c \in DOMAIN re |->
       [p \in DOMAIN re[c] |-> re[c][p] * re[c][p] + im[c][p] * im[c][p]]]

\* the k-th smallest of the values of the slots a, counted from 1
kth_smallest(a, k) ==
    LET cells == {<<c, p>> : c \in DOMAIN a, p \in DOMAIN a[1]}
        values == {a[x[1]][x[2]] : x \in cells}
    IN CHOOSE v \in values :
         /\ Cardinality({x \in cells : a[x[1]][x[2]] < v}) < k
         /\ Cardinality({x \in cells : a[x[1]][x[2]] <= v}) >= k

\* np.median(a) over all slots and pixels: the two middle values of the
\* sorted samples, whose mean is the median (one value twice when the number
\* of samples is odd)
median(a) ==
    LET n == Len(a) * Cardinality(DOMAIN a[1])
    IN <<kth_smallest(a, (n + 1) \div 2), kth_smallest(a, (n \div 2) + 1)>>

\* a + m for the slots a and the median m
biased(a, m) ==
    [c \in DOMAIN a |-> [p \in DOMAIN a[c] |-> [abs |-> a[c][p], bias |-> m]]]

\* the divisor d is 0.0: the magnitude is zero and so is the median
is_zero(d) == d.abs = 0 /\ d.bias[2] = 0

\* num / den, slot by slot and pixel by pixel. Dividing by 0.0 gives nan for
\* 0.0 / 0.0 and an infinity otherwise.
divided(num, den) ==
    [c \in DOMAIN num |->
       [p \in DOMAIN num[c] |->
          [dividend |-> num[c][p], divisor |-> den[c][p],
           quotient |-> IF ~is_zero(den[c][p]) THEN "finite"
                        ELSE IF num[c][p] = 0 THEN "nan" ELSE "inf"]]]

\* the es component is not running
EsIdle ==
    /\ es_pc = "idle" /\ es_args = <<>> /\ es_grad = <<>> /\ grad_abs = <<>>
    /\ es_data = <<>>

\* a call es(image_data)
EsStart ==
    /\ es_pc = "check_shape"
    /\ es_args \in EsImages
    /\ es_grad = <<>> /\ grad_abs = <<>> /\ es_data = <<>>

\* if len(image_data.shape) != 3: raise ValueError(...)
EsCheckShape ==
    /\ es_pc = "check_shape"
    /\ es_pc' = IF Len(es_args.shape) # 3 THEN "raised" ELSE "gradient"
    /\ UNCHANGED <<es_args, es_grad, grad_abs, es_data>>
    /\ UNCHANGED <<rotVars, lbpVars, hogVars, igoVars>>

\* grad = gradient(image_data)
EsGradient ==
    /\ es_pc = "gradient"
    /\ es_grad' = gradient_values(es_args)
    /\ es_pc' = "abs"
    /\ UNCHANGED <<es_args, grad_abs, es_data>>
    /\ UNCHANGED <<rotVars, lbpVars, hogVars, igoVars>>

\* grad_abs = np.abs(grad[..., ::2] + 1j * grad[..., 1::2])
EsAbs ==
    /\ es_pc = "abs"
    /\ grad_abs' = abs_squared(Slice(es_grad, 0, 2), Slice(es_grad, 1, 2))
    /\ es_pc' = "median"
    /\ UNCHANGED <<es_args, es_grad, es_data>>
    /\ UNCHANGED <<rotVars, lbpVars, hogVars, igoVars>>

\* grad_abs = grad_abs + np.median(grad_abs)
EsMedian ==
    /\ es_pc = "median"
    /\ grad_abs' = biased(grad_abs, median(grad_abs))
    /\ es_pc' = "empty"
    /\ UNCHANGED <<es_args, es_grad, es_data>>
    /\ UNCHANGED <<rotVars, lbpVars, hogVars, igoVars>>

\* es_data = np.empty((shape[0], shape[1], shape[-1] * feat_channels))
EsEmpty ==
    /\ es_pc = "empty"
    /\ es_data' = empty(es_args.shape[1], es_args.shape[2],
                        es_args.shape[Len(es_args.shape)] * 2)
    /\ es_pc' = "first"
    /\ UNCHANGED <<es_args, es_grad, grad_abs>>
    /\ UNCHANGED <<rotVars, lbpVars, hogVars, igoVars>>

\* es_data[..., ::feat_channels] = grad[..., ::2] / grad_abs
EsFirst ==
    /\ es_pc = "first"
    /\ es_data' = Assigned(es_data, 0, 2,
                           divided(Slice(es_grad, 0, 2), grad_abs))
    /\ es_pc' = "second"
    /\ UNCHANGED <<es_args, es_grad, grad_abs>>
    /\ UNCHANGED <<rotVars, lbpVars, hogVars, igoVars>>

\* es_data[..., 1::feat_channels] = grad[..., 1::2] / grad_abs
EsSecond ==
    /\ es_pc = "second"
    /\ es_data' = Assigned(es_data, 1, 2,
                           divided(Slice(es_grad, 1, 2), grad_abs))
    /\ es_pc' = "returned"
    /\ UNCHANGED <<es_args, es_grad, grad_abs>>
    /\ UNCHANGED <<rotVars, lbpVars, hogVars, igoVars>>

-----------------------------------------------------------------------------
(* Specifications *)

InitRot == RotStart /\ LbpIdle /\ HogIdle /\ IgoIdle /\ EsIdle

NextRot == RotateLeft \/ RotateRight

\* the rotations alone
SpecRot == InitRot /\ [][NextRot]_vars

InitLbp == LbpStart /\ RotIdle /\ HogIdle /\ IgoIdle /\ EsIdle

NextLbp ==
    \/ LbpEnterU2 \/ LbpStepU2
    \/ LbpEnterRI \/ LbpStepRI
    \/ LbpEnterRIU2 \/ LbpStepRIU2
    \/ LbpNone \/ LbpWrongType \/ LbpReturn

\* the mapping table construction alone
SpecLbp == InitLbp /\ [][NextLbp]_vars

InitHog == HogStart /\ RotIdle /\ LbpIdle /\ IgoIdle /\ EsIdle

\* the calls whose mode argument is a string literal of the source
InitHogLiteral ==
    HogStart /\ args["mode_is_literal"] /\ RotIdle /\ LbpIdle /\ IgoIdle
    /\ EsIdle

NextHog ==
    \/ HogCheckMode \/ HogCheckAlgorithm \/ HogCheckNumBins
    \/ HogCheckCellSize \/ HogCheckBlockSize \/ HogCheckL2NormClip
    \/ HogDenseBlock
    \/ HogCheckWindowUnit \/ HogCheckWindowHeight \/ HogCheckWindowWidth
    \/ HogCheckStepHorizontal \/ HogCheckStepVertical \/ HogCheckStepUnit
    \/ HogCorrectImage
    \/ HogCreateDenseIterator \/ HogCreateSparseIterator
    \/ HogCompute \/ HogComputeRaises \/ HogReturn

\* hog alone
SpecHog == InitHog /\ [][NextHog]_vars

\* hog alone, called with a literal mode
SpecHogLiteral == InitHogLiteral /\ [][NextHog]_vars

InitEs == EsStart /\ RotIdle /\ LbpIdle /\ HogIdle /\ IgoIdle

NextEs ==
    \/ EsCheckShape \/ EsGradient \/ EsAbs \/ EsMedian \/ EsEmpty
    \/ EsFirst \/ EsSecond

\* es alone
SpecEs == InitEs /\ [][NextEs]_vars

InitIgo == IgoStart /\ RotIdle /\ LbpIdle /\ HogIdle /\ EsIdle

NextIgo ==
    \/ IgoCheckShape \/ IgoFeatChannels \/ IgoGradient \/ IgoOrient
    \/ IgoEmpty \/ IgoCos \/ IgoSin \/ IgoCos2 \/ IgoSin2

\* igo alone
SpecIgo == InitIgo /\ [][NextIgo]_vars

-----------------------------------------------------------------------------
(* The properties, stated without the operators of the code *)

\* bit i of c
Bit(c, i) == (c \div (2 ^ i)) % 2

\* the number of places where a bit of the n-bit circular pattern c differs
\* from its neighbour
Transitions(c, n) ==
    Cardinality({i \in 0..(n - 1) : Bit(c, i) # Bit(c, (i + 1) % n)})

\* the number of 1-bits among the n low bits of c
Ones(c, n) == Cardinality({i \in 0..(n - 1) : Bit(c, i) = 1})

\* a uniform code: at most 2 transitions
IsUniform(c, n) == Transitions(c, n) <= 2

RECURSIVE RotatedFrom(_, _, _, _)
\* the bits i..n-1 of c, each moved k places up, circularly, in n bits
RotatedFrom(c, k, n, i) ==
    IF i >= n THEN 0
    ELSE Bit(c, i) * (2 ^ ((i + k) % n)) + RotatedFrom(c, k, n, i + 1)

\* the n-bit pattern c rotated k places
Rotated(c, k, n) == RotatedFrom(c, k, n, 0)

\* the codes of n bits
Codes(n) == 0..(2 ^ n - 1)

\* the mapping table call has returned a table
TableReturned ==
    lbp_pc = "returned" /\ mapping_type \in {"u2", "ri", "riu2"}

\* the values that occur in the table
TableValues == {table[c] : c \in DOMAIN table}

\* C1: a left rotation after a right rotation by the same count, and a right
\* rotation after a left one, give the value the caller started from, reduced
\* modulo 2^max_bits
C1_RotationRoundTrip ==
    (Len(rot_ops) = 2 /\ rot_ops[1] # rot_ops[2])
        => rot_val = rot_in % (2 ^ max_bits)

\* a right then left rotation, by a count that moves bits, of a value with
\* bits above max_bits, came back to the value modulo 2^max_bits
C1_Witness ==
    /\ rot_ops = <<"right", "left">>
    /\ rot_bits % max_bits # 0
    /\ rot_in >= 2 ^ max_bits
    /\ rot_val = rot_in % (2 ^ max_bits)

\* C2: the u2 table gives new_max = n(n-1)+3, numbers the uniform codes
\* 0, 1, ... in ascending order of the code, gives every other code
\* new_max-1, which no uniform code gets; for 8 samples new_max is 59 and
\* 0b10101010 maps to 58
C2_U2Table ==
    (lbp_pc = "returned" /\ mapping_type = "u2") =>
        LET n == n_samples
            U == {c \in Codes(n) : IsUniform(c, n)}
        IN /\ new_max = n * (n - 1) + 3
           /\ \A c \in U : table[c] = Cardinality({d \in U : d < c})
           /\ \A c \in Codes(n) \ U : table[c] = new_max - 1
           /\ \A c \in U : table[c] # new_max - 1
           /\ Cardinality(U) <= new_max - 1
           /\ n = 8 => (new_max = 59 /\ table[170] = 58)

\* the u2 table of 8 samples was returned, with 0b10101010 at 58
C2_Witness ==
    /\ lbp_pc = "returned" /\ mapping_type = "u2" /\ n_samples = 8
    /\ new_max = 59
    /\ table[170] = 58
    /\ table[255] = 57

\* C3: the riu2 table gives new_max = n+2, maps every uniform code to its
\* number of 1-bits and every other code to n+1; for 8 samples new_max is
\* 10, the uniform codes take the values 0..8 and the others 9
C3_RIU2Table ==
    (lbp_pc = "returned" /\ mapping_type = "riu2") =>
        LET n == n_samples
            U == {c \in Codes(n) : IsUniform(c, n)}
        IN /\ new_max = n + 2
           /\ \A c \in U : table[c] = Ones(c, n)
           /\ \A c \in Codes(n) \ U : table[c] = n + 1
           /\ n = 8 => /\ new_max = 10
                       /\ {table[c] : c \in U} = 0..8
                       /\ \A c \in Codes(n) \ U : table[c] = 9

\* the riu2 table of 8 samples was returned, with a non-uniform code at 9
C3_Witness ==
    /\ lbp_pc = "returned" /\ mapping_type = "riu2" /\ n_samples = 8
    /\ table[170] = 9
    /\ table[15] = 4

\* C4: in the ri and riu2 tables, codes that are rotations of each other have
\* the same entry; for 4 samples 0b0011, 0b0110, 0b1100 and 0b1001 share one
C4_RotationsShareEntry ==
    (lbp_pc = "returned" /\ mapping_type \in {"ri", "riu2"}) =>
        /\ \A c \in Codes(n_samples), k \in 0..(n_samples - 1) :
               table[Rotated(c, k, n_samples)] = table[c]
        /\ n_samples = 4 =>
               (table[3] = table[6] /\ table[6] = table[12]
                /\ table[12] = table[9])

\* the ri table of 4 samples was returned: the four rotations of 0b0011
\* share an entry that 0b0101 does not have
C4_Witness ==
    /\ lbp_pc = "returned" /\ mapping_type = "ri" /\ n_samples = 4
    /\ table[3] = table[6] /\ table[3] = table[12] /\ table[3] = table[9]
    /\ table[5] # table[3]

\* C5, as claimed: new_max is the number of distinct values in the table
C5_NewMaxIsDistinctCount ==
    TableReturned => new_max = Cardinality(TableValues)

\* C5, amended: new_max is the number of distinct values in the ri table,
\* and in the u2 and riu2 tables of 4 or more samples; in the u2 and riu2
\* tables of up to 3 samples every code is uniform, new_max-1 does not occur
\* and the table holds new_max-1 distinct values
C5_NewMaxCountsClasses ==
    TableReturned =>
        IF mapping_type = "ri" \/ n_samples >= 4
        THEN new_max = Cardinality(TableValues)
        ELSE /\ new_max = Cardinality(TableValues) + 1
             /\ new_max - 1 \notin TableValues
             /\ \A c \in Codes(n_samples) : IsUniform(c, n_samples)

\* the u2 table of 3 samples was returned: 8 distinct values, new_max 9
C5_Witness ==
    /\ TableReturned /\ mapping_type = "u2" /\ n_samples = 3
    /\ new_max = 9
    /\ Cardinality(TableValues) = 8

\* C6: the returned table has 2^n entries, each written by the loop and each
\* at least 0 and below new_max
C6_TableEntriesInRange ==
    TableReturned =>
        /\ DOMAIN table = Codes(n_samples)
        /\ written = Codes(n_samples)
        /\ \A c \in Codes(n_samples) : 0 <= table[c] /\ table[c] < new_max

\* the ri table of 5 samples was returned with its 8 classes, all 32 entries
\* written
C6_Witness ==
    /\ TableReturned /\ mapping_type = "ri" /\ n_samples = 5
    /\ Cardinality(written) = 32
    /\ new_max = 8
    /\ TableValues = 0..7

\* the argument has been read
Has(name) == name \in DOMAIN args

\* the message when the constraint is violated
Violation(violated, msg) == IF violated THEN {msg} ELSE {}

\* the window size the dense-mode validation resolves, in halves
ResolvedWindow(w) ==
    IF args["window_unit"] = "blocks"
    THEN w * args["block_size"] * args["cell_size"]
    ELSE w

\* the dense-mode constraints apply and the window arguments are known
DenseKnown == args["mode"] = "dense" /\ Has("window_unit")

\* the messages of the constraints that the arguments read so far violate
ViolatedConstraints ==
    Violation(args["mode"] \notin {"dense", "sparse"},
              "HOG features mode must be either dense or sparse")
    \cup Violation(Has("algorithm")
                     /\ args["algorithm"] \notin {"dalaltriggs", "zhuramanan"},
                   "Algorithm must be either dalaltriggs or zhuramanan")
    \cup Violation(Has("num_bins") /\ args["num_bins"] <= 0,
                   "Number of orientation bins must be > 0")
    \cup Violation(Has("cell_size") /\ args["cell_size"] <= 0,
                   "Cell size (in pixels) must be > 0")
    \cup Violation(Has("block_size") /\ args["block_size"] <= 0,
                   "Block size (in cells) must be > 0")
    \cup Violation(Has("l2_norm_clip") /\ args["l2_norm_clip"] <= 0,
                   "Value for L2-norm clipping must be > 0.0")
    \cup Violation(DenseKnown
                     /\ args["window_unit"] \notin {"pixels", "blocks"},
                   "Window unit must be either pixels or blocks")
    \cup Violation(DenseKnown
                     /\ LET h == ResolvedWindow(args["window_height"])
                        IN \/ h < 2 * args["block_size"] * args["cell_size"]
                           \/ h > 2 * shape[1],
                   "Window height must be >= block size and <= image height")
    \cup Violation(DenseKnown
                     /\ LET w == ResolvedWindow(args["window_width"])
                        IN \/ w < 2 * args["block_size"] * args["cell_size"]
                           \/ w > 2 * shape[2],
                   "Window width must be >= block size and <= image width")
    \cup Violation(DenseKnown /\ args["window_step_horizontal"] <= 0,
                   "Horizontal window step must be > 0")
    \cup Violation(DenseKnown /\ args["window_step_vertical"] <= 0,
                   "Vertical window step must be > 0")
    \cup Violation(DenseKnown
                     /\ args["window_step_unit"] \notin {"pixels", "cells"},
                   "Window step unit must be either pixels or cells")

\* C7: validation precedes computation: a ValueError names a violated
\* constraint and leaves the pixels untouched and no iterator made, and once
\* the pixels are touched or an iterator exists no constraint is violated
C7_ValidationPrecedesComputation ==
    /\ hog_pc = "raised" =>
           /\ hog_error \in ViolatedConstraints
           /\ heap = <<>> /\ iterator = <<>>
    /\ (heap # <<>> \/ iterator # <<>>) => ViolatedConstraints = {}

\* C8: an iterator that exists has a window at least one block and at most
\* the image in each direction, and steps above 0
C8_IteratorGeometryValid ==
    iterator # <<>> =>
        LET it == iterator[1]
            block_in_pixels == args["block_size"] * args["cell_size"]
        IN /\ it.window_height >= 2 * block_in_pixels
           /\ it.window_height <= 2 * shape[1]
           /\ it.window_width >= 2 * block_in_pixels
           /\ it.window_width <= 2 * shape[2]
           /\ it.window_step_vertical > 0
           /\ it.window_step_horizontal > 0

\* C9: the caller's pixel array holds the values it held on entry
C9_CallerPixelsUnchanged ==
    heap # <<>> =>
        \A c \in DOMAIN heap[1].pixels : heap[1].pixels[c] = c

\* C10: in sparse mode the iterator has the geometry of the algorithm, from
\* cell_size and block_size alone, and no padding
C10_SparseCanonicalGeometry ==
    (iterator # <<>> /\ args["mode"] = "sparse") =>
        LET it == iterator[1]
            size == IF args["algorithm"] = "dalaltriggs"
                    THEN args["block_size"] * args["cell_size"]
                    ELSE 3 * args["cell_size"]
        IN /\ it.window_height = 2 * size
           /\ it.window_width = 2 * size
           /\ it.window_step_vertical = 2 * args["cell_size"]
           /\ it.window_step_horizontal = 2 * args["cell_size"]
           /\ it.padding = FALSE

\* a sparse zhuramanan iterator exists though the caller asked for padding,
\* another window and another step
C10_Witness ==
    /\ iterator # <<>> /\ args["mode"] = "sparse"
    /\ args["algorithm"] = "zhuramanan"
    /\ args["padding"] = TRUE
    /\ args["window_unit"] = "pixels"
    /\ args["window_height"] # iterator[1].window_height
    /\ args["window_width"] # iterator[1].window_width
    /\ args["window_step_vertical"] # iterator[1].window_step_vertical
    /\ iterator[1].window_height = 6 * args["cell_size"]


\* the samples of one pixel of the array hog works on
Buffer == heap[image_data].pixels

\* the number of channels of the array the caller passed
CallerChannels == Len(heap[1].pixels)

\* hog has rescaled the pixels
Normalized ==
    hog_pc \in {"create_iterator", "compute", "computed", "returned", "failed"}

\* C11: after the pixel pre-normalization of hog, a 3-channel input is
\* scaled by 255 and has 3 channels, a 1-channel input with 'dalaltriggs'
\* is unscaled with 1 channel, a 1-channel input with 'zhuramanan' is
\* scaled by 255 and replicated to 3 channels, and whenever the algorithm
\* is 'zhuramanan' the buffer handed to the iterator has exactly 3
\* channels.
C11_ZhuramananGetsThreeChannels ==
    /\ Normalized =>
         /\ CallerChannels = 3 => Buffer = <<255, 510, 765>>
         /\ CallerChannels = 1 /\ args["algorithm"] = "dalaltriggs" =>
              Buffer = <<1>>
         /\ CallerChannels = 1 /\ args["algorithm"] = "zhuramanan" =>
              Buffer = <<255, 255, 255>>
    /\ iterator # <<>> /\ args["algorithm"] = "zhuramanan" =>
         Len(heap[iterator[1].image].pixels) = 3

\* hog has read the number of axes of an array that does not have 3 axes
HogWrongRank == "ndim" \in DOMAIN args /\ args["ndim"] # 3

\* igo has examined an array that does not have 3 axes
IgoWrongRank ==
    igo_pc \notin {"idle", "check_shape"} /\ Len(igo_args.shape) # 3

\* es has examined an array that does not have 3 axes
EsWrongRank ==
    es_pc \notin {"idle", "check_shape"} /\ Len(es_args.shape) # 3

\* C12: hog, igo and es, called with an array that does not have exactly 3
\* axes, end with a ValueError raised before anything is computed: no
\* gradient, no rescaled or copied pixels, no iterator, no output buffer.
C12_WrongRankRaisesValueErrorFirst ==
    /\ HogWrongRank =>
         hog_pc = "raised" /\ heap = <<>> /\ iterator = <<>>
    /\ IgoWrongRank =>
         igo_pc = "raised" /\ igo_grad = <<>> /\ igo_data = <<>>
    /\ EsWrongRank =>
         es_pc = "raised" /\ es_grad = <<>> /\ es_data = <<>>

\* the features of one orientation, in the order of the output
FeatureNames == <<"cos", "sin", "cos2", "sin2">>

\* C13: for an input of C >= 1 channels igo returns a buffer of the same
\* two spatial sizes with C*f channels, f = 4 with double_angles and 2
\* without; slot c*f+k holds feature k (cos, sin, cos 2x, sin 2x) of the
\* orientation of input channel c, taken from the two derivatives of that
\* channel at gradient slots 2c and 2c+1; every slot is written exactly
\* once.
C13_IgoLayout ==
    igo_pc = "returned" =>
        LET C == igo_args.shape[3]
            f == IF igo_args.double_angles THEN 4 ELSE 2
        IN /\ igo_data.shape = <<igo_args.shape[1], igo_args.shape[2], C * f>>
           /\ DOMAIN igo_data.slots = 1..(C * f)
           /\ \A c \in 0..(C - 1) :
                /\ igo_grad[2 * c + 1].channel = c
                /\ igo_grad[2 * c + 2].channel = c
                /\ igo_grad[2 * c + 1].axis # igo_grad[2 * c + 2].axis
                /\ \A k \in 0..(f - 1) :
                     /\ igo_data.slots[c * f + k + 1].feature
                          = FeatureNames[k + 1]
                     /\ igo_data.slots[c * f + k + 1].of.real
                          = igo_grad[2 * c + 1]
                     /\ igo_data.slots[c * f + k + 1].of.imag
                          = igo_grad[2 * c + 2]
           /\ \A i \in 1..(C * f) : igo_writes[i] = 1

\* igo has returned the 4 features of each channel of an image with more
\* than one channel
C13_Witness ==
    /\ igo_pc = "returned"
    /\ igo_args.double_angles
    /\ igo_args.shape[3] = MaxChannels
    /\ Len(igo_data.slots) = 4 * MaxChannels

\* the call of hog has ended, by a return or by an error
HogEnded == hog_pc \in {"returned", "raised", "index_error", "failed"}

\* C14: when a call of hog ends, by returning or by an error raised in the
\* HOG computation, the iterator it constructed has been released; and an
\* iterator exists only past the validation, between its construction and
\* the end of the call, so a call that fails validation never has one.
C14_IteratorReleasedAtEnd ==
    /\ HogEnded => iterator = <<>>
    /\ iterator # <<>> => hog_pc \in {"compute", "computed", "failed"}

\* es has added the median to the magnitudes
EsBiased == es_pc \in {"empty", "first", "second", "returned"}

\* C15: in es, for every image with 3 axes, the divisor at every pixel,
\* the gradient magnitude plus the median of all gradient magnitudes, is
\* greater than zero, and no component of the output is the result of a
\* division by zero.
C15_DivisorPositive ==
    /\ EsBiased =>
         \A c \in DOMAIN grad_abs : \A p \in DOMAIN grad_abs[c] :
            grad_abs[c][p].abs > 0 \/ grad_abs[c][p].bias[2] > 0
    /\ es_pc = "returned" =>
         \A k \in DOMAIN es_data.slots : \A p \in DOMAIN es_data.slots[k] :
            es_data.slots[k][p].quotient = "finite"

=============================================================================
